---- MODULE Spec2Model ----
(***************************************************************************)
(* Model of the gettext catalog scripts: check_translations.py,           *)
(* extract_untranslated.py and import_translations.py.                    *)
(*                                                                         *)
(* A Python str is a sequence of one-character strings, so that strip,    *)
(* split, replace, startswith and the regular expressions of the source   *)
(* are computed character by character, as the source computes them.      *)
(***************************************************************************)
EXTENDS Integers, Sequences, FiniteSets, TLC

VARIABLES
    \* import_translations.py: PoUpdater and the files it touches
    layout,               \* how the catalog text on disk was laid out
    translations_data,    \* the JSON payload: [entries, fuzzy_entries]
    po_file,              \* content of the catalog file on disk
    backup_file,          \* content of the backup file, NoFile before the copy
    content,              \* PoUpdater.content
    translations_map,     \* update(): msgid -> task
    fuzzy_map,            \* update(): msgid -> task
    updated_content,      \* update(): result of _process_content
    updated_count,        \* PoUpdater.updated_count
    fuzzy_cleared_count,  \* PoUpdater.fuzzy_cleared_count
    pc,                   \* position of update()
    \* _format_string and _extract_string on one string
    fmt_s,                \* the logical string
    fmt_lines,            \* _format_string(fmt_s)
    fmt_back,             \* the string read back from fmt_lines
    fmt_pc,
    \* check_translations.py: main on one locale
    chk_text,             \* content of the locale's catalog file
    chk_lang,             \* lang_dir.name
    chk_exclusions,       \* load_exclusions()
    chk_entries,          \* parse_po_file(po_file)
    chk_i,                \* how many entries the loop has checked
    chk_last,             \* the entry checked last, is_excluded's answer, its issues
    empty_count,
    untranslated_count,
    chk_pc,
    \* extract_untranslated.py: main
    exp_text,             \* content of the catalog file
    exp_limit,            \* [given, n]: the limit argument, if any
    exp_exclusions,       \* PoParser.exclusions
    exp_entries,          \* parser.parse()
    exp_i,                \* how many entries the loop has classified
    untranslated,
    fuzzy,
    excluded_count,
    output_data,
    exp_pc,
    \* import_translations.py run again and again on one catalog
    now,                  \* the second datetime.now() shows
    backup_dir,           \* the backup files: timestamp suffix -> content
    invocations           \* one record for each update() that has run

importVars == <<layout, translations_data, po_file, backup_file, content,
                translations_map, fuzzy_map, updated_content, updated_count,
                fuzzy_cleared_count, pc>>
fmtVars == <<fmt_s, fmt_lines, fmt_back, fmt_pc>>
checkVars == <<chk_text, chk_lang, chk_exclusions, chk_entries, chk_i, chk_last,
               empty_count, untranslated_count, chk_pc>>
exportVars == <<exp_text, exp_limit, exp_exclusions, exp_entries, exp_i,
                untranslated, fuzzy, excluded_count, output_data, exp_pc>>
repeatVars == <<now, backup_dir, invocations>>
notImportVars == <<fmtVars, checkVars, exportVars, repeatVars>>
notFormatVars == <<importVars, checkVars, exportVars, repeatVars>>
notCheckVars == <<importVars, fmtVars, exportVars, repeatVars>>
notExportVars == <<importVars, fmtVars, checkVars, repeatVars>>
vars == <<importVars, fmtVars, checkVars, exportVars, repeatVars>>

-----------------------------------------------------------------------------
(* Characters *)

NL == "\n"
TAB == "\t"
BS == "\\"
QT == "\""
SP == " "

\* str.isspace for the characters of the model
IsSpace(c) == c \in {SP, NL, TAB}

-----------------------------------------------------------------------------
(* Python str operations *)

\* s[k:]
From(s, k) == IF k >= Len(s) THEN <<>> ELSE SubSeq(s, k + 1, Len(s))

\* s.startswith(p)
StartsWith(s, p) == Len(s) >= Len(p) /\ SubSeq(s, 1, Len(p)) = p

\* s.endswith(p)
EndsWith(s, p) == Len(s) >= Len(p) /\ SubSeq(s, Len(s) - Len(p) + 1, Len(s)) = p

\* the number of leading whitespace characters of s
LeadingSpaces(s) ==
    IF \A i \in 1..Len(s) : IsSpace(s[i]) THEN Len(s)
    ELSE (CHOOSE i \in 1..Len(s) : ~IsSpace(s[i]) /\ \A j \in 1..(i - 1) : IsSpace(s[j])) - 1

\* the number of trailing whitespace characters of s
TrailingSpaces(s) ==
    IF \A i \in 1..Len(s) : IsSpace(s[i]) THEN Len(s)
    ELSE Len(s) - (CHOOSE i \in 1..Len(s) :
                      ~IsSpace(s[i]) /\ \A j \in (i + 1)..Len(s) : IsSpace(s[j]))

LStrip(s) == From(s, LeadingSpaces(s))

RStrip(s) == SubSeq(s, 1, Len(s) - TrailingSpaces(s))

\* s.strip()
Strip(s) == RStrip(LStrip(s))

\* s.split(c) for a one-character separator: the pieces between the places
\* of c, in order
Split(s, c) ==
    LET at == {i \in 1..Len(s) : s[i] = c}
        \* the place of the k-th separator; 0 and Len(s) + 1 bracket the string
        place(k) == IF k = 0 THEN 0
                    ELSE IF k > Cardinality(at) THEN Len(s) + 1
                    ELSE CHOOSE i \in at : Cardinality({j \in at : j <= i}) = k
    IN [k \in 1..(Cardinality(at) + 1) |-> SubSeq(s, place(k - 1) + 1, place(k) - 1)]

RECURSIVE Join(_, _)
\* sep.join(parts)
Join(parts, sep) ==
    IF parts = <<>> THEN <<>>
    ELSE IF Len(parts) = 1 THEN parts[1]
    ELSE parts[1] \o sep \o Join(Tail(parts), sep)

\* s.find(sub) + 1: the first place sub occurs at, 0 when it does not occur
Find(s, sub) ==
    LET at == {i \in 1..(Len(s) - Len(sub) + 1) : SubSeq(s, i, i + Len(sub) - 1) = sub}
    IN IF at = {} THEN 0 ELSE CHOOSE i \in at : \A j \in at : i <= j

RECURSIVE Replace(_, _, _)
\* s.replace(old, new) for a non-empty old: leftmost, non-overlapping
Replace(s, old, new) ==
    LET i == Find(s, old)
    IN IF i = 0 THEN s
       ELSE SubSeq(s, 1, i - 1) \o new \o Replace(From(s, i - 1 + Len(old)), old, new)

\* sub in s
Contains(s, sub) == \E i \in 0..(Len(s) - Len(sub)) : SubSeq(s, i + 1, i + Len(sub)) = sub

-----------------------------------------------------------------------------
(* Quoted strings of the catalog syntax *)

\* The unescape chain shared by the three _extract_string copies
Unescape(s) ==
    Replace(Replace(Replace(Replace(s, <<BS, "n">>, <<NL>>),
                            <<BS, "t">>, <<TAB>>),
                    <<BS, QT>>, <<QT>>),
            <<BS, BS>>, <<BS>>)

\* PoUpdater._extract_string, extract_string, PoParser._extract_string
ExtractString(s0) ==
    LET s == Strip(s0)
    IN IF StartsWith(s, <<QT>>) /\ EndsWith(s, <<QT>>)
       THEN Unescape(SubSeq(s, 2, Len(s) - 1))
       ELSE s

\* The length below which _format_string keeps a one-line string on one line
MaxLineLen == 70

Quote(s) == <<QT>> \o s \o <<QT>>

\* PoUpdater._format_string: the physical lines of a logical string
FormatString(s0) ==
    LET s == Replace(Replace(Replace(s0, <<BS>>, <<BS, BS>>),
                             <<QT>>, <<BS, QT>>),
                     <<TAB>>, <<BS, "t">>)
        lines == Split(s, NL)
    IN IF Len(lines) = 1 /\ Len(s) < MaxLineLen
       THEN <<Quote(s)>>
       ELSE <<Quote(<<>>)>> \o
            [i \in 1..(Len(lines) - 1) |-> Quote(lines[i] \o <<BS, "n">>)] \o
            (IF lines[Len(lines)] # <<>> THEN <<Quote(lines[Len(lines)])>> ELSE <<>>)

RECURSIVE ConcatAll(_)
\* ''.join(parts)
ConcatAll(parts) == IF parts = <<>> THEN <<>> ELSE Head(parts) \o ConcatAll(Tail(parts))

\* What the parsers read from a directive's physical lines: each line is
\* dequoted and unescaped, and the results are concatenated
ReadBack(lines) == ConcatAll([i \in 1..Len(lines) |-> ExtractString(lines[i])])

-----------------------------------------------------------------------------
(* Keywords of the catalog syntax, as character sequences *)

K_Msgid == <<"m", "s", "g", "i", "d">>
K_Msgstr == <<"m", "s", "g", "s", "t", "r">>
K_MsgidSp == K_Msgid \o <<SP>>                         \* 'msgid '
K_MsgidQuote == K_Msgid \o <<SP, QT>>                  \* 'msgid "'
K_MsgidPlural == K_Msgid \o <<"_", "p", "l", "u", "r", "a", "l">>
K_MsgidPluralSp == K_MsgidPlural \o <<SP>>             \* 'msgid_plural '
K_MsgstrSp == K_Msgstr \o <<SP>>                       \* 'msgstr '
K_MsgstrQuote == K_Msgstr \o <<SP, QT>>                \* 'msgstr "'
K_MsgstrBracket == K_Msgstr \o <<"[">>                 \* 'msgstr['
K_BracketSp == <<"]", SP>>                             \* '] '
K_Fuzzy == <<"f", "u", "z", "z", "y">>
K_HashComma == <<"#", ",">>
K_HashColon == <<"#", ":">>
K_HashDot == <<"#", ".">>
K_HashTilde == <<"#", "~">>

Digits == <<"0", "1", "2", "3", "4", "5", "6", "7", "8", "9">>
IsDigit(c) == \E d \in 1..10 : Digits[d] = c
DigitVal(c) == (CHOOSE d \in 1..10 : Digits[d] = c) - 1

\* length of the longest prefix of s made of digits: what \d+ consumes
DigitRunLen(s) ==
    IF \A i \in 1..Len(s) : IsDigit(s[i]) THEN Len(s)
    ELSE (CHOOSE i \in 1..Len(s) : ~IsDigit(s[i]) /\ \A j \in 1..(i - 1) : IsDigit(s[j])) - 1

RECURSIVE ParseInt(_, _)
\* int(digits)
ParseInt(ds, acc) == IF ds = <<>> THEN acc ELSE ParseInt(Tail(ds), 10 * acc + DigitVal(Head(ds)))

RECURSIVE IntToStr(_)
\* str(n) for n >= 0
IntToStr(n) == IF n < 10 THEN <<Digits[n + 1]>> ELSE IntToStr(n \div 10) \o <<Digits[(n % 10) + 1]>>

\* re.match(r'msgstr\[\d+\] ', s): the digits matched, <<>> when there is no match
PluralIndexDigits(s) ==
    IF ~StartsWith(s, K_MsgstrBracket) THEN <<>>
    ELSE LET rest == From(s, Len(K_MsgstrBracket))
             n == DigitRunLen(rest)
         IN IF n >= 1 /\ StartsWith(From(rest, n), K_BracketSp)
            THEN SubSeq(rest, 1, n) ELSE <<>>

\* group(2) of re.match(r'msgstr\[(\d+)\] (.+)', s), for an s that matches
PluralValuePart(s) ==
    From(s, Len(K_MsgstrBracket) + Len(PluralIndexDigits(s)) + Len(K_BracketSp))

RECURSIVE ContinuationEnd(_, _)
\* the j that "while j < len(lines) and lines[j].strip().startswith('"'): j += 1"
\* ends with, for 1-based j
ContinuationEnd(lines, j) ==
    IF j <= Len(lines) /\ StartsWith(Strip(lines[j]), <<QT>>)
    THEN ContinuationEnd(lines, j + 1) ELSE j

-----------------------------------------------------------------------------
(* Splitting a catalog text into blocks *)

\* what a greedy \s* consumes at the head of s
SpaceRunLen(s) == LeadingSpaces(s)

\* the last position k <= n of s holding a newline, 0 when there is none
LastNewline(s, n) ==
    IF \E k \in 1..n : s[k] = NL
    THEN CHOOSE k \in 1..n : s[k] = NL /\ \A m \in (k + 1)..n : s[m] # NL
    ELSE 0

\* the length of the match of \n\s*\n that starts at place i of s, 0 when
\* there is none: the greedy \s* gives back down to the last newline of the run
SeparatorLen(s, i) ==
    IF s[i] # NL THEN 0
    ELSE LET rest == From(s, i)
             k == LastNewline(rest, SpaceRunLen(rest))
         IN IF k > 0 THEN k + 1 ELSE 0

RECURSIVE ReSplitAcc(_, _)
ReSplitAcc(s, acc) ==
    LET at == {i \in 1..Len(s) : SeparatorLen(s, i) > 0}
    IN IF at = {} THEN Append(acc, s)
       ELSE LET i == CHOOSE i \in at : \A j \in at : i <= j
                n == SeparatorLen(s, i)
            IN ReSplitAcc(From(s, i - 1 + n),
                          acc \o <<SubSeq(s, 1, i - 1), SubSeq(s, i, i - 1 + n)>>)

\* re.split without the capturing group: the separators are dropped (mutant)
ReSplit_NoCapture(text) ==
    LET toks == ReSplitAcc(text, <<>>)
    IN [i \in 1..((Len(toks) + 1) \div 2) |-> toks[2 * i - 1]]

\* re.split(r'(\n\s*\n)', text): blocks at the odd places, separators at the even
ReSplit(text) == ReSplitAcc(text, <<>>)

\* re.split(r'\n\s*\n', text): the blocks alone
ReSplitBlocks(text) ==
    LET toks == ReSplit(text)
    IN [i \in 1..((Len(toks) + 1) \div 2) |-> toks[2 * i - 1]]

-----------------------------------------------------------------------------
(* import_translations.py: PoUpdater *)

RECURSIVE ExtractMsgidAcc(_, _, _, _)
ExtractMsgidAcc(lines, i, in_msgid, msgid_lines) ==
    IF i > Len(lines) THEN ConcatAll(msgid_lines)
    ELSE LET line == lines[i]
         IN IF StartsWith(Strip(line), K_MsgidQuote)
            THEN ExtractMsgidAcc(lines, i + 1, TRUE,
                                 Append(msgid_lines, ExtractString(Strip(From(line, 6)))))
            ELSE IF in_msgid /\ StartsWith(Strip(line), <<QT>>)
            THEN ExtractMsgidAcc(lines, i + 1, in_msgid,
                                 Append(msgid_lines, ExtractString(Strip(line))))
            ELSE IF in_msgid
            THEN ConcatAll(msgid_lines)
            ELSE ExtractMsgidAcc(lines, i + 1, in_msgid, msgid_lines)

\* PoUpdater._extract_msgid
ExtractMsgid(block) == ExtractMsgidAcc(Split(Strip(block), NL), 1, FALSE, <<>>)

\* [f.strip() for f in line[2:].split(',') if f.strip() != 'fuzzy']
FlagsWithoutFuzzy(line) ==
    LET parts == Split(From(line, 2), ",")
    IN SelectSeq([i \in 1..Len(parts) |-> Strip(parts[i])], LAMBDA f : f # K_Fuzzy)

\* The msgstr rewrite of _update_block: the directive line carries the first
\* formatted line, the remaining formatted lines follow
Rewritten(directive, translation) ==
    LET f == FormatString(translation)
    IN <<directive \o <<SP>> \o f[1]>> \o Tail(f)

RECURSIVE UpdateLines(_, _, _, _, _, _, _, _)
\* The loop of _update_block. skip_next is the integer j - i - 1 the code
\* stores and then tests as a truth value: one line is skipped when it is
\* not zero.
UpdateLines(lines, i, skip_next, task, is_fuzzy, updated_lines, upd, clr) ==
    IF i > Len(lines)
    THEN [text |-> Join(updated_lines, <<NL>>), updated |-> upd, cleared |-> clr]
    ELSE IF skip_next # 0
    THEN UpdateLines(lines, i + 1, 0, task, is_fuzzy, updated_lines, upd, clr)
    ELSE
      LET line == lines[i]
          sline == Strip(line)
          digits == PluralIndexDigits(sline)
          j == ContinuationEnd(lines, i + 1)
      IN IF is_fuzzy /\ StartsWith(sline, K_HashComma) /\ Contains(line, K_Fuzzy)
         THEN LET flags == FlagsWithoutFuzzy(line)
              IN UpdateLines(lines, i + 1, 0, task, is_fuzzy,
                     updated_lines \o
                       (IF flags # <<>>
                        THEN <<K_HashComma \o <<SP>> \o Join(flags, <<",", SP>>)>>
                        ELSE <<>>),
                     upd, clr + 1)
         ELSE IF StartsWith(sline, K_MsgstrQuote) /\ ~task.has_plural
         THEN UpdateLines(lines, i + 1, j - i - 1, task, is_fuzzy,
                     updated_lines \o Rewritten(K_Msgstr, task.translation),
                     upd + 1, clr)
         ELSE IF digits # <<>> /\ task.has_translations
                   /\ ParseInt(digits, 0) \in DOMAIN task.translations
         THEN LET index == ParseInt(digits, 0)
              IN UpdateLines(lines, i + 1, j - i - 1, task, is_fuzzy,
                     updated_lines \o
                       Rewritten(K_MsgstrBracket \o IntToStr(index) \o <<"]">>,
                                 task.translations[index]),
                     upd + 1, clr)
         ELSE UpdateLines(lines, i + 1, 0, task, is_fuzzy,
                     Append(updated_lines, line), upd, clr)

\* PoUpdater._update_block: the new block text and what it adds to the counters
UpdateBlock(block, task, is_fuzzy) ==
    UpdateLines(Split(Strip(block), NL), 1, 0, task, is_fuzzy, <<>>, 0, 0)

\* The choice of lines 77-82: whether a block is updated, from which map, how
BlockUpdate(block, tmap, fmap) ==
    LET msgid == ExtractMsgid(block)
    IN IF msgid # <<>> /\ (msgid \in DOMAIN tmap \/ msgid \in DOMAIN fmap)
       THEN IF msgid \in DOMAIN tmap
            THEN UpdateBlock(block, tmap[msgid], FALSE)
            ELSE UpdateBlock(block, fmap[msgid], TRUE)
       ELSE [text |-> block, updated |-> 0, cleared |-> 0]

RECURSIVE ProcessTokens(_, _, _, _, _)
ProcessTokens(blocks, i, tmap, fmap, acc) ==
    IF i > Len(blocks) THEN acc
    ELSE LET block == blocks[i]
             r == IF Strip(block) = <<>>
                  THEN [text |-> block, updated |-> 0, cleared |-> 0]
                  ELSE BlockUpdate(block, tmap, fmap)
         IN ProcessTokens(blocks, i + 1, tmap, fmap,
                [text |-> acc.text \o r.text,
                 updated |-> acc.updated + r.updated,
                 cleared |-> acc.cleared + r.cleared])

\* PoUpdater._process_content
ProcessContent(text, tmap, fmap) ==
    ProcessTokens(ReSplit(text), 1, tmap, fmap,
                  [text |-> <<>>, updated |-> 0, cleared |-> 0])

\* The lookup map update() builds from a task list: the tasks with a non-empty
\* translation slot, a later task replacing an earlier one of the same msgid
TaskMap(tasks) ==
    LET kept == {i \in DOMAIN tasks : tasks[i].translation # <<>>}
        last(m) == CHOOSE i \in kept : tasks[i].msgid = m
                      /\ \A k \in kept : tasks[k].msgid = m => k <= i
    IN [m \in {tasks[i].msgid : i \in kept} |-> tasks[last(m)]]

-----------------------------------------------------------------------------
(* Python dict as the sequence of its (key, value) items, in insertion order *)

EmptyDict == <<>>

DictKeys(d) == {d[i].key : i \in DOMAIN d}

DictGet(d, k) == d[CHOOSE i \in DOMAIN d : d[i].key = k].value

\* d[k] = v
DictSet(d, k, v) ==
    IF k \in DictKeys(d)
    THEN [i \in DOMAIN d |-> IF d[i].key = k THEN [key |-> k, value |-> v] ELSE d[i]]
    ELSE Append(d, [key |-> k, value |-> v])

-----------------------------------------------------------------------------
(* check_translations.py: parse_block, parse_po_file *)

\* The value of a directive at line i: the rest of the directive line and the
\* continuation lines after it, each through extract_string, concatenated
DirectiveValue(lines, i, first) ==
    LET j == ContinuationEnd(lines, i + 1)
    IN ConcatAll(<<ExtractString(first)>> \o
                 [k \in 1..(j - i - 1) |-> ExtractString(Strip(lines[i + k]))])

\* [f.strip() for f in line[2:].split(',')]
FlagList(rest) ==
    LET parts == Split(rest, ",")
    IN [i \in 1..Len(parts) |-> Strip(parts[i])]

NewEntry ==
    [msgid |-> <<>>, msgid_plural |-> <<>>, msgstr |-> <<>>,
     msgstr_plural |-> EmptyDict, locations |-> <<>>, flags |-> <<>>,
     obsolete |-> FALSE]

RECURSIVE ParseLines(_, _, _)
\* the while loop of parse_block
ParseLines(lines, i, entry) ==
    IF i > Len(lines) THEN entry
    ELSE
      LET line == Strip(lines[i])
          j == ContinuationEnd(lines, i + 1)
          digits == PluralIndexDigits(line)
      IN IF StartsWith(line, K_HashColon)
         THEN ParseLines(lines, i + 1,
                [entry EXCEPT !.locations = Append(@, Strip(From(line, 2)))])
         ELSE IF StartsWith(line, K_HashComma)
         THEN ParseLines(lines, i + 1, [entry EXCEPT !.flags = FlagList(From(line, 2))])
         ELSE IF StartsWith(line, K_MsgidPluralSp)
         THEN ParseLines(lines, j,
                [entry EXCEPT !.msgid_plural = DirectiveValue(lines, i, From(line, 13))])
         ELSE IF StartsWith(line, K_MsgidSp)
         THEN ParseLines(lines, j,
                [entry EXCEPT !.msgid = DirectiveValue(lines, i, From(line, 6))])
         ELSE IF StartsWith(line, K_MsgstrSp)
         THEN ParseLines(lines, j,
                [entry EXCEPT !.msgstr = DirectiveValue(lines, i, From(line, 7))])
         ELSE IF digits # <<>>
         THEN ParseLines(lines, j,
                [entry EXCEPT !.msgstr_plural =
                    DictSet(@, ParseInt(digits, 0),
                            DirectiveValue(lines, i, PluralValuePart(line)))])
         ELSE ParseLines(lines, i + 1, entry)

\* parse_block
ParseBlock(block) ==
    LET lines == Split(Strip(block), NL)
    IN IF \E i \in DOMAIN lines : StartsWith(lines[i], K_HashTilde)
       THEN [NewEntry EXCEPT !.obsolete = TRUE]
       ELSE ParseLines(lines, 1, NewEntry)

\* the entries parse_po_file returns for a text
ParsePoFile(text) ==
    LET blocks == SelectSeq(ReSplitBlocks(text), LAMBDA b : Strip(b) # <<>>)
        parsed == [i \in 1..Len(blocks) |-> ParseBlock(blocks[i])]
    IN SelectSeq(parsed, LAMBDA e : e.msgid # <<>>)

-----------------------------------------------------------------------------
(* extract_untranslated.py: PoParser *)

NewPoEntry ==
    [comments |-> <<>>, locations |-> <<>>, flags |-> <<>>, msgid |-> <<>>,
     msgid_plural |-> <<>>, msgstr |-> <<>>, msgstr_plural |-> EmptyDict,
     is_fuzzy |-> FALSE, is_untranslated |-> FALSE]

\* x in seq
InSeq(x, seq) == \E i \in DOMAIN seq : seq[i] = x

RECURSIVE PoParseLines(_, _, _)
\* the while loop of PoParser._parse_block
PoParseLines(lines, i, entry) ==
    IF i > Len(lines) THEN entry
    ELSE
      LET line == Strip(lines[i])
          j == ContinuationEnd(lines, i + 1)
          digits == PluralIndexDigits(line)
      IN IF StartsWith(line, K_HashDot)
         THEN PoParseLines(lines, i + 1, [entry EXCEPT !.comments = Append(@, line)])
         ELSE IF StartsWith(line, K_HashColon)
         THEN PoParseLines(lines, i + 1,
                [entry EXCEPT !.locations = Append(@, Strip(From(line, 2)))])
         ELSE IF StartsWith(line, K_HashComma)
         THEN LET flags == FlagList(Strip(From(line, 2)))
              IN PoParseLines(lines, i + 1,
                   [entry EXCEPT !.flags = flags,
                                 !.is_fuzzy = IF InSeq(K_Fuzzy, flags) THEN TRUE ELSE @])
         ELSE IF StartsWith(line, <<"#">>)
         THEN PoParseLines(lines, i + 1, [entry EXCEPT !.comments = Append(@, line)])
         ELSE IF StartsWith(line, K_MsgidSp)
         THEN PoParseLines(lines, j,
                [entry EXCEPT !.msgid = DirectiveValue(lines, i, From(line, 6))])
         ELSE IF StartsWith(line, K_MsgidPluralSp)
         THEN PoParseLines(lines, j,
                [entry EXCEPT !.msgid_plural = DirectiveValue(lines, i, From(line, 13))])
         ELSE IF StartsWith(line, K_MsgstrSp)
         THEN PoParseLines(lines, j,
                [entry EXCEPT !.msgstr = DirectiveValue(lines, i, From(line, 7))])
         ELSE IF digits # <<>>
         THEN PoParseLines(lines, j,
                [entry EXCEPT !.msgstr_plural =
                    DictSet(@, ParseInt(digits, 0),
                            DirectiveValue(lines, i, PluralValuePart(line)))])
         ELSE PoParseLines(lines, i + 1, entry)

\* the "Check if untranslated" part of PoParser._parse_block
IsUntranslated(entry) ==
    IF entry.msgid = <<>> THEN FALSE
    ELSE IF entry.msgid_plural # <<>>
    THEN \E i \in DOMAIN entry.msgstr_plural :
            LET msgstr == entry.msgstr_plural[i].value
            IN msgstr = <<>> \/ msgstr = entry.msgid \/ msgstr = entry.msgid_plural
    ELSE entry.msgstr = <<>> \/ entry.msgstr = entry.msgid

\* PoParser._parse_block
PoParseBlock(block) ==
    LET entry == PoParseLines(Split(Strip(block), NL), 1, NewPoEntry)
    IN [entry EXCEPT !.is_untranslated = IsUntranslated(entry)]

\* PoParser.parse
PoParse(text) ==
    LET blocks == SelectSeq(ReSplitBlocks(text), LAMBDA b : Strip(b) # <<>>)
        parsed == [i \in 1..Len(blocks) |-> PoParseBlock(blocks[i])]
    IN SelectSeq(parsed, LAMBDA e : e.msgid # <<>>)

-----------------------------------------------------------------------------
(* is_excluded and check_entry *)

LowerCase == <<"a", "b", "c", "d", "e", "f", "g", "h", "i", "j", "k", "l", "m",
               "n", "o", "p", "q", "r", "s", "t", "u", "v", "w", "x", "y", "z">>
UpperCase == <<"A", "B", "C", "D", "E", "F", "G", "H", "I", "J", "K", "L", "M",
               "N", "O", "P", "Q", "R", "S", "T", "U", "V", "W", "X", "Y", "Z">>

IsLower(c) == \E i \in DOMAIN LowerCase : LowerCase[i] = c
IsUpper(c) == \E i \in DOMAIN UpperCase : UpperCase[i] = c

\* \w
IsWordChar(c) == IsLower(c) \/ IsUpper(c) \/ IsDigit(c) \/ c = "_"

\* str.upper
ToUpper(s) ==
    [i \in DOMAIN s |->
        IF IsLower(s[i])
        THEN UpperCase[CHOOSE k \in DOMAIN LowerCase : LowerCase[k] = s[i]]
        ELSE s[i]]

\* str.isupper: a cased character, and no lower-case one
StrIsUpper(s) ==
    /\ \E i \in DOMAIN s : IsUpper(s[i])
    /\ \A i \in DOMAIN s : ~IsLower(s[i])

\* the words re.findall(r'\b\w+\b', s) returns, as a set: the maximal runs
\* of word characters
Words(s) ==
    LET starts == {i \in DOMAIN s : IsWordChar(s[i]) /\ (i = 1 \/ ~IsWordChar(s[i - 1]))}
        stop(i) == CHOOSE e \in i..Len(s) :
                      /\ \A k \in i..e : IsWordChar(s[k])
                      /\ (e = Len(s) \/ ~IsWordChar(s[e + 1]))
    IN {SubSeq(s, i, stop(i)) : i \in starts}

\* is_excluded with a length test that leaves length 5 out (mutant)
IsExcluded_Below5(msgid, exclusions) ==
    IF exclusions = <<>> THEN FALSE
    ELSE IF InSeq(msgid, exclusions) THEN TRUE
    ELSE IF Words(msgid) # {}
            /\ \A w \in Words(msgid) :
                  \E i \in DOMAIN exclusions : ToUpper(exclusions[i]) = ToUpper(w)
    THEN TRUE
    ELSE Len(msgid) < 5 /\ StrIsUpper(msgid)

\* is_excluded, PoParser.is_excluded
IsExcluded(msgid, exclusions) ==
    IF exclusions = <<>> THEN FALSE
    ELSE IF InSeq(msgid, exclusions) THEN TRUE
    ELSE IF Words(msgid) # {}
            /\ \A w \in Words(msgid) :
                  \E i \in DOMAIN exclusions : ToUpper(exclusions[i]) = ToUpper(w)
    THEN TRUE
    ELSE Len(msgid) <= 5 /\ StrIsUpper(msgid)

L_en_EN == <<"e", "n", "_", "E", "N">>
L_fr_FR == <<"f", "r", "_", "F", "R">>

\* an issue of check_entry; idx is <<N>> for msgstr[N] and <<>> for msgstr
Issue(type, msgid, idx) == [type |-> type, msgid |-> msgid, idx |-> idx]

\* the issues of the plural branch, in the order of msgstr_plural.items()
PluralIssues(entry, is_english) ==
    LET items == entry.msgstr_plural
        one(i) == IF items[i].value = <<>>
                  THEN <<Issue("empty_plural", entry.msgid, <<items[i].key>>)>>
                  ELSE IF ~is_english /\ items[i].value = entry.msgid
                  THEN <<Issue("untranslated_plural", entry.msgid, <<items[i].key>>)>>
                  ELSE <<>>
    IN ConcatAll([i \in DOMAIN items |-> one(i)])

\* check_entry without the exemption of en_EN (mutant)
CheckEntry_NoExemption(entry, exclusions, lang) ==
    IF entry.obsolete \/ entry.msgid = <<>> THEN <<>>
    ELSE IF IsExcluded(entry.msgid, exclusions) THEN <<>>
    ELSE IF entry.msgid_plural # <<>>
    THEN PluralIssues(entry, FALSE)
    ELSE IF entry.msgstr = <<>>
    THEN <<Issue("empty", entry.msgid, <<>>)>>
    ELSE IF entry.msgstr = entry.msgid
    THEN <<Issue("untranslated", entry.msgid, <<>>)>>
    ELSE <<>>

\* check_entry
CheckEntry(entry, exclusions, lang) ==
    LET is_english == lang = L_en_EN
    IN IF entry.obsolete \/ entry.msgid = <<>> THEN <<>>
       ELSE IF IsExcluded(entry.msgid, exclusions) THEN <<>>
       ELSE IF entry.msgid_plural # <<>>
       THEN PluralIssues(entry, is_english)
       ELSE IF entry.msgstr = <<>>
       THEN <<Issue("empty", entry.msgid, <<>>)>>
       ELSE IF ~is_english /\ entry.msgstr = entry.msgid
       THEN <<Issue("untranslated", entry.msgid, <<>>)>>
       ELSE <<>>

-----------------------------------------------------------------------------
(* Catalog texts and payloads the import is run on *)

\* the most blocks of a catalog
MaxBlocks == 3

Line_Msgid(m) == K_MsgidSp \o Quote(m)
Line_MsgidPlural(m) == K_MsgidPluralSp \o Quote(m)
Line_Msgstr(m) == K_MsgstrSp \o Quote(m)
Line_MsgstrN(n, m) == K_MsgstrBracket \o IntToStr(n) \o K_BracketSp \o Quote(m)
Line_Fuzzy == K_HashComma \o <<SP>> \o K_Fuzzy

\* msgid "a" / msgstr ""
Blk_Singular == <<Line_Msgid(<<"a">>), Line_Msgstr(<<>>)>>
\* #, fuzzy / msgid "b" / msgstr "d"
Blk_Fuzzy == <<Line_Fuzzy, Line_Msgid(<<"b">>), Line_Msgstr(<<"d">>)>>
\* msgid "c" / msgid_plural "cs" / msgstr[0] "" / msgstr[1] "x"
Blk_Plural == <<Line_Msgid(<<"c">>), Line_MsgidPlural(<<"c", "s">>),
                Line_MsgstrN(0, <<>>), Line_MsgstrN(1, <<"x">>)>>
\* the header: msgid "" / msgstr "" / "H\n"
Blk_Header == <<Line_Msgid(<<>>), Line_Msgstr(<<>>), Quote(<<"H", BS, "n">>)>>

BlockPool == {Blk_Singular, Blk_Fuzzy, Blk_Plural, Blk_Header}

\* the run of blank lines between two blocks, and what follows the last block
SpacingPool ==
    {[sep |-> <<NL, NL>>, trail |-> <<>>],
     [sep |-> <<NL, NL>>, trail |-> <<NL>>],
     [sep |-> <<NL, SP, NL, NL>>, trail |-> <<NL>>]}

Layouts ==
    {[blocks |-> b, sep |-> sp.sep, trail |-> sp.trail] :
        b \in UNION {[1..n -> BlockPool] : n \in 1..MaxBlocks},
        sp \in SpacingPool}

\* the catalog text of a layout
Text(l) ==
    Join([i \in 1..Len(l.blocks) |-> Join(l.blocks[i], <<NL>>)], l.sep) \o l.trail

NoTranslations == <<>>

SingularTask(m, t) ==
    [msgid |-> m, translation |-> t, has_plural |-> FALSE,
     has_translations |-> FALSE, translations |-> NoTranslations]

PluralTask(m, t, ts) ==
    [msgid |-> m, translation |-> t, has_plural |-> TRUE,
     has_translations |-> TRUE, translations |-> ts]

TaskPool ==
    {SingularTask(<<"a">>, <<"x">>),
     SingularTask(<<"a">>, <<>>),
     SingularTask(<<"b">>, <<"y">>),
     PluralTask(<<"c">>, <<"z">>, [i \in {0} |-> <<"p">>]),
     PluralTask(<<"c">>, <<>>, [i \in {0} |-> <<"p">>])}

Payloads ==
    {[entries |-> e, fuzzy_entries |-> f] :
        e \in {<<>>} \cup {<<t>> : t \in TaskPool},
        f \in {<<>>, <<SingularTask(<<"b">>, <<"y">>)>>}}

NoFile == <<"no file">>
NoMap == <<>>

\* no update() has run: the clock is not read, there is no backup file
NoBackups == <<>>
RepeatIdle ==
    /\ now = 0
    /\ backup_dir = NoBackups
    /\ invocations = <<>>

-----------------------------------------------------------------------------
(* import_translations.py: PoUpdater.update as a state machine *)

FormatIdle ==
    /\ fmt_s = <<>>
    /\ fmt_lines = <<>>
    /\ fmt_back = <<>>
    /\ fmt_pc = "idle"

NoCheck == [entry |-> NewEntry, excluded |-> FALSE, issues |-> <<>>]

CheckIdle ==
    /\ chk_text = <<>>
    /\ chk_lang = <<>>
    /\ chk_exclusions = <<>>
    /\ chk_entries = <<>>
    /\ chk_i = 0
    /\ chk_last = NoCheck
    /\ empty_count = 0
    /\ untranslated_count = 0
    /\ chk_pc = "idle"

NoOutput ==
    [untranslated_count |-> 0, fuzzy_count |-> 0, total_untranslated |-> 0,
     excluded_count |-> 0, entries |-> <<>>, fuzzy_entries |-> <<>>]

ExportIdle ==
    /\ exp_text = <<>>
    /\ exp_limit = [given |-> FALSE, n |-> 0]
    /\ exp_exclusions = <<>>
    /\ exp_entries = <<>>
    /\ exp_i = 0
    /\ untranslated = <<>>
    /\ fuzzy = <<>>
    /\ excluded_count = 0
    /\ output_data = NoOutput
    /\ exp_pc = "idle"

\* PoUpdater.__init__ on a catalog file and a payload
InitImport ==
    /\ layout \in Layouts
    /\ translations_data \in Payloads
    /\ po_file = Text(layout)
    /\ backup_file = NoFile
    /\ content = <<>>
    /\ translations_map = NoMap
    /\ fuzzy_map = NoMap
    /\ updated_content = <<>>
    /\ updated_count = 0
    /\ fuzzy_cleared_count = 0
    /\ pc = "start"
    /\ FormatIdle
    /\ CheckIdle
    /\ ExportIdle
    /\ RepeatIdle

\* shutil.copy2(self.po_file, backup_file)
Backup ==
    /\ pc = "start"
    /\ backup_file' = po_file
    /\ pc' = "backed_up"
    /\ UNCHANGED <<layout, translations_data, po_file, content, translations_map,
                   fuzzy_map, updated_content, updated_count, fuzzy_cleared_count>>
    /\ UNCHANGED notImportVars

\* the failure of the copy is swallowed and update() goes on (mutant)
BackupFails_Swallowed ==
    /\ pc = "start"
    /\ pc' = "backed_up"
    /\ UNCHANGED <<layout, translations_data, po_file, backup_file, content,
                   translations_map, fuzzy_map, updated_content, updated_count,
                   fuzzy_cleared_count>>
    /\ UNCHANGED notImportVars

\* shutil.copy2 raises: update() ends there
BackupFails ==
    /\ pc = "start"
    /\ pc' = "backup_failed"
    /\ UNCHANGED <<layout, translations_data, po_file, backup_file, content,
                   translations_map, fuzzy_map, updated_content, updated_count,
                   fuzzy_cleared_count>>
    /\ UNCHANGED notImportVars

\* self.content = f.read()
ReadCatalog ==
    /\ pc = "backed_up"
    /\ content' = po_file
    /\ pc' = "read"
    /\ UNCHANGED <<layout, translations_data, po_file, backup_file, translations_map,
                   fuzzy_map, updated_content, updated_count, fuzzy_cleared_count>>
    /\ UNCHANGED notImportVars

\* open(self.po_file, 'r') or f.read() raises
ReadFails ==
    /\ pc = "backed_up"
    /\ pc' = "read_failed"
    /\ UNCHANGED <<layout, translations_data, po_file, backup_file, content,
                   translations_map, fuzzy_map, updated_content, updated_count,
                   fuzzy_cleared_count>>
    /\ UNCHANGED notImportVars

\* the two loops that fill translations_map and fuzzy_map
BuildMaps ==
    /\ pc = "read"
    /\ translations_map' = TaskMap(translations_data.entries)
    /\ fuzzy_map' = TaskMap(translations_data.fuzzy_entries)
    /\ pc' = "mapped"
    /\ UNCHANGED <<layout, translations_data, po_file, backup_file, content,
                   updated_content, updated_count, fuzzy_cleared_count>>
    /\ UNCHANGED notImportVars

\* updated_content = self._process_content(translations_map, fuzzy_map)
Process ==
    /\ pc = "mapped"
    /\ LET r == ProcessContent(content, translations_map, fuzzy_map)
       IN /\ updated_content' = r.text
          /\ updated_count' = updated_count + r.updated
          /\ fuzzy_cleared_count' = fuzzy_cleared_count + r.cleared
    /\ pc' = "processed"
    /\ UNCHANGED <<layout, translations_data, po_file, backup_file, content,
                   translations_map, fuzzy_map>>
    /\ UNCHANGED notImportVars

\* open(self.po_file, 'w'): the file is truncated
OpenForWrite ==
    /\ pc = "processed"
    /\ po_file' = <<>>
    /\ pc' = "opened"
    /\ UNCHANGED <<layout, translations_data, backup_file, content, translations_map,
                   fuzzy_map, updated_content, updated_count, fuzzy_cleared_count>>
    /\ UNCHANGED notImportVars

\* open(self.po_file, 'w') raises: nothing is truncated
OpenForWriteFails ==
    /\ pc = "processed"
    /\ pc' = "open_failed"
    /\ UNCHANGED <<layout, translations_data, po_file, backup_file, content,
                   translations_map, fuzzy_map, updated_content, updated_count,
                   fuzzy_cleared_count>>
    /\ UNCHANGED notImportVars

\* f.write(updated_content) and the close of the file
WriteCatalog ==
    /\ pc = "opened"
    /\ po_file' = updated_content
    /\ pc' = "done"
    /\ UNCHANGED <<layout, translations_data, backup_file, content, translations_map,
                   fuzzy_map, updated_content, updated_count, fuzzy_cleared_count>>
    /\ UNCHANGED notImportVars

NextImport ==
    \/ Backup
    \/ BackupFails
    \/ ReadCatalog
    \/ ReadFails
    \/ BuildMaps
    \/ Process
    \/ OpenForWrite
    \/ OpenForWriteFails
    \/ WriteCatalog

SpecImport == InitImport /\ [][NextImport]_vars

-----------------------------------------------------------------------------
(* _format_string and _extract_string on one logical string *)

\* the longest string drawn from the alphabet below
MaxStrLen == 3

FormatAlphabet == {QT, BS, TAB, NL, "n", "t", "a"}

\* n times the letter a
Letters(n) == [i \in 1..n |-> "a"]

\* every string of the alphabet up to MaxStrLen, and strings around the
\* length at which _format_string leaves the one-line form
FormatInputs ==
    UNION {[1..n -> FormatAlphabet] : n \in 0..MaxStrLen}
    \cup {Letters(MaxLineLen - 1), Letters(MaxLineLen),
          Letters(MaxLineLen - 2) \o <<QT>>}

ImportIdle ==
    /\ layout = [blocks |-> <<>>, sep |-> <<>>, trail |-> <<>>]
    /\ translations_data = [entries |-> <<>>, fuzzy_entries |-> <<>>]
    /\ po_file = <<>>
    /\ backup_file = NoFile
    /\ content = <<>>
    /\ translations_map = NoMap
    /\ fuzzy_map = NoMap
    /\ updated_content = <<>>
    /\ updated_count = 0
    /\ fuzzy_cleared_count = 0
    /\ pc = "idle"

InitFormat ==
    /\ fmt_s \in FormatInputs
    /\ fmt_lines = <<>>
    /\ fmt_back = <<>>
    /\ fmt_pc = "start"
    /\ ImportIdle
    /\ CheckIdle
    /\ ExportIdle
    /\ RepeatIdle

\* formatted_translation = self._format_string(translation)
Format ==
    /\ fmt_pc = "start"
    /\ fmt_lines' = FormatString(fmt_s)
    /\ fmt_pc' = "formatted"
    /\ UNCHANGED <<fmt_s, fmt_back>>
    /\ UNCHANGED notFormatVars

\* the parser's reading of the lines: extract_string on each, concatenated
ReadFormatted ==
    /\ fmt_pc = "formatted"
    /\ fmt_back' = ReadBack(fmt_lines)
    /\ fmt_pc' = "read"
    /\ UNCHANGED <<fmt_s, fmt_lines>>
    /\ UNCHANGED notFormatVars

NextFormat ==
    \/ Format
    \/ ReadFormatted

SpecFormat == InitFormat /\ [][NextFormat]_vars

\* C3: the lines _format_string produces for a string, dequoted, unescaped
\* and concatenated, are the string.
C3_EscapeRoundTrip == fmt_pc = "read" => fmt_back = fmt_s

-----------------------------------------------------------------------------
(* Catalogs the checker and the exporter are run on *)

\* the most blocks of a catalog that is checked or exported
MaxEntries == 2

\* the largest limit argument of the exporter
MaxLimit == 2

\* msgid "Ab" / msgstr ""
Blk_Empty == <<Line_Msgid(<<"A", "b">>), Line_Msgstr(<<>>)>>
\* msgid "Ab" / msgstr "Ab"
Blk_Copy == <<Line_Msgid(<<"A", "b">>), Line_Msgstr(<<"A", "b">>)>>
\* #: f:1 / msgid "d" / msgstr "x"
Blk_Done == <<K_HashColon \o <<SP, "f", ":", "1">>, Line_Msgid(<<"d">>),
              Line_Msgstr(<<"x">>)>>
\* msgid "c" / msgid_plural "cs" / msgstr[0] "" / msgstr[1] "c" / msgstr[2] "x"
Blk_PluralPartial ==
    <<Line_Msgid(<<"c">>), Line_MsgidPlural(<<"c", "s">>),
      Line_MsgstrN(0, <<>>), Line_MsgstrN(1, <<"c">>), Line_MsgstrN(2, <<"x">>)>>
\* msgid "c" / msgid_plural "cs", and no msgstr[N] line
Blk_PluralBare == <<Line_Msgid(<<"c">>), Line_MsgidPlural(<<"c", "s">>)>>
\* msgid "d", and no msgstr line
Blk_SingularBare == <<Line_Msgid(<<"d">>)>>
\* msgid "HTTPS" / msgstr ""
Blk_ShortUpper == <<Line_Msgid(<<"H", "T", "T", "P", "S">>), Line_Msgstr(<<>>)>>
\* #, fuzzy / msgid "b" / msgstr ""
Blk_FuzzyEmpty == <<Line_Fuzzy, Line_Msgid(<<"b">>), Line_Msgstr(<<>>)>>

\* a commented-out entry: #~ msgid "o" / #~ msgstr ""
Blk_Obsolete == <<K_HashTilde \o <<SP>> \o Line_Msgid(<<"o">>),
                  K_HashTilde \o <<SP>> \o Line_Msgstr(<<>>)>>
\* a commented-out line in a block that also has an active entry:
\* #~ msgid "o" / msgid m / msgstr ""
Blk_ObsoleteMixed(m) == <<K_HashTilde \o <<SP>> \o Line_Msgid(<<"o">>),
                          Line_Msgid(m), Line_Msgstr(<<>>)>>

AnalysisBlockPool ==
    {Blk_Empty, Blk_Copy, Blk_Done, Blk_PluralPartial, Blk_PluralBare,
     Blk_SingularBare, Blk_ShortUpper, Blk_FuzzyEmpty, Blk_Header,
     Blk_Obsolete, Blk_ObsoleteMixed(<<"n">>)}

AnalysisTexts ==
    {Text([blocks |-> b, sep |-> <<NL, NL>>, trail |-> <<NL>>]) :
        b \in UNION {[1..n -> AnalysisBlockPool] : n \in 1..MaxEntries}}

\* the exclusion lists: none (also what a missing file gives), and one term
ExclusionPool == {<<>>, <<<<"a", "b">>>>}

-----------------------------------------------------------------------------
(* check_translations.py: main on one locale *)

InitCheck ==
    /\ chk_text \in AnalysisTexts
    /\ chk_lang \in {L_en_EN, L_fr_FR}
    /\ chk_exclusions \in ExclusionPool
    /\ chk_entries = <<>>
    /\ chk_i = 0
    /\ chk_last = NoCheck
    /\ empty_count = 0
    /\ untranslated_count = 0
    /\ chk_pc = "start"
    /\ ImportIdle
    /\ FormatIdle
    /\ ExportIdle
    /\ RepeatIdle

\* entries = parse_po_file(po_file)
CheckParse ==
    /\ chk_pc = "start"
    /\ chk_entries' = ParsePoFile(chk_text)
    /\ chk_pc' = "loop"
    /\ UNCHANGED <<chk_text, chk_lang, chk_exclusions, chk_i, chk_last, empty_count,
                   untranslated_count>>
    /\ UNCHANGED notCheckVars

\* the types of issues that count as empty: 'empty' in issue_type
CountsAsEmpty(type) == type \in {"empty", "empty_plural"}

\* one turn of "for entry in entries": check_entry and the two counters
CheckNext ==
    /\ chk_pc = "loop"
    /\ chk_i < Len(chk_entries)
    /\ LET entry == chk_entries[chk_i + 1]
           entry_issues == CheckEntry(entry, chk_exclusions, chk_lang)
       IN /\ chk_last' = [entry |-> entry,
                          excluded |-> IsExcluded(entry.msgid, chk_exclusions),
                          issues |-> entry_issues]
          /\ empty_count' = empty_count
                + Len(SelectSeq(entry_issues, LAMBDA x : CountsAsEmpty(x.type)))
          /\ untranslated_count' = untranslated_count
                + Len(SelectSeq(entry_issues, LAMBDA x : ~CountsAsEmpty(x.type)))
    /\ chk_i' = chk_i + 1
    /\ UNCHANGED <<chk_text, chk_lang, chk_exclusions, chk_entries, chk_pc>>
    /\ UNCHANGED notCheckVars

\* the end of the loop: the exit status follows the number of issues
CheckFinish ==
    /\ chk_pc = "loop"
    /\ chk_i = Len(chk_entries)
    /\ chk_pc' = IF empty_count + untranslated_count > 0 THEN "exit_1" ELSE "exit_0"
    /\ UNCHANGED <<chk_text, chk_lang, chk_exclusions, chk_entries, chk_i, chk_last,
                   empty_count, untranslated_count>>
    /\ UNCHANGED notCheckVars

-----------------------------------------------------------------------------
(* extract_untranslated.py: main *)

InitExport ==
    /\ exp_text \in AnalysisTexts
    /\ exp_limit \in {[given |-> FALSE, n |-> 0]}
                     \cup {[given |-> TRUE, n |-> n] : n \in 0..MaxLimit}
    /\ exp_exclusions \in ExclusionPool
    /\ exp_entries = <<>>
    /\ exp_i = 0
    /\ untranslated = <<>>
    /\ fuzzy = <<>>
    /\ excluded_count = 0
    /\ output_data = NoOutput
    /\ exp_pc = "start"
    /\ ImportIdle
    /\ FormatIdle
    /\ CheckIdle
    /\ RepeatIdle

\* entries = parser.parse()
ExportParse ==
    /\ exp_pc = "start"
    /\ exp_entries' = PoParse(exp_text)
    /\ exp_pc' = "loop"
    /\ UNCHANGED <<exp_text, exp_limit, exp_exclusions, exp_i, untranslated, fuzzy,
                   excluded_count, output_data>>
    /\ UNCHANGED notExportVars

\* one turn of "for entry in entries": the entry goes to fuzzy, to
\* untranslated, to the excluded count, or nowhere
ExportClassify ==
    /\ exp_pc = "loop"
    /\ exp_i < Len(exp_entries)
    /\ LET entry == exp_entries[exp_i + 1]
           excluded == IsExcluded(entry.msgid, exp_exclusions)
       IN IF entry.is_fuzzy
          THEN /\ fuzzy' = IF ~excluded THEN Append(fuzzy, entry) ELSE fuzzy
               /\ excluded_count' = IF excluded THEN excluded_count + 1 ELSE excluded_count
               /\ UNCHANGED untranslated
          ELSE IF entry.is_untranslated
          THEN /\ untranslated' = IF ~excluded THEN Append(untranslated, entry)
                                  ELSE untranslated
               /\ excluded_count' = IF excluded THEN excluded_count + 1 ELSE excluded_count
               /\ UNCHANGED fuzzy
          ELSE UNCHANGED <<untranslated, fuzzy, excluded_count>>
    /\ exp_i' = exp_i + 1
    /\ UNCHANGED <<exp_text, exp_limit, exp_exclusions, exp_entries, output_data, exp_pc>>
    /\ UNCHANGED notExportVars

\* seq[:n]
Take(seq, n) == SubSeq(seq, 1, IF n < Len(seq) THEN n ELSE Len(seq))

\* "if limit:" and the two slices
ExportLimit ==
    /\ exp_pc = "loop"
    /\ exp_i = Len(exp_entries)
    /\ IF exp_limit.given /\ exp_limit.n # 0
       THEN /\ untranslated' = Take(untranslated, exp_limit.n)
            /\ fuzzy' = Take(fuzzy, exp_limit.n)
       ELSE UNCHANGED <<untranslated, fuzzy>>
    /\ exp_pc' = "limited"
    /\ UNCHANGED <<exp_text, exp_limit, exp_exclusions, exp_entries, exp_i,
                   excluded_count, output_data>>
    /\ UNCHANGED notExportVars

\* the task the exporter writes for an entry: an empty translation slot, and
\* for a plural entry an empty translations mapping
ExportedTask(entry) ==
    [msgid |-> entry.msgid, translation |-> <<>>,
     has_plural |-> entry.msgid_plural # <<>>,
     has_translations |-> entry.msgid_plural # <<>>,
     translations |-> NoTranslations]

\* output_data, with total_untranslated counted over all the entries
ExportOutput ==
    /\ exp_pc = "limited"
    /\ output_data' =
         [untranslated_count |-> Len(untranslated),
          fuzzy_count |-> Len(fuzzy),
          total_untranslated |->
              Len(SelectSeq(exp_entries,
                    LAMBDA e : e.is_untranslated /\ ~IsExcluded(e.msgid, exp_exclusions))),
          excluded_count |-> excluded_count,
          entries |-> [i \in DOMAIN untranslated |-> ExportedTask(untranslated[i])],
          fuzzy_entries |-> [i \in DOMAIN fuzzy |-> ExportedTask(fuzzy[i])]]
    /\ exp_pc' = "done"
    /\ UNCHANGED <<exp_text, exp_limit, exp_exclusions, exp_entries, exp_i,
                   untranslated, fuzzy, excluded_count>>
    /\ UNCHANGED notExportVars

-----------------------------------------------------------------------------
(* The checker and the exporter, each on its own run *)

InitAnalysis == InitCheck \/ InitExport

NextAnalysis ==
    \/ CheckParse
    \/ CheckNext
    \/ CheckFinish
    \/ ExportParse
    \/ ExportClassify
    \/ ExportLimit
    \/ ExportOutput

SpecAnalysis == InitAnalysis /\ [][NextAnalysis]_vars

-----------------------------------------------------------------------------
(* Properties of the import *)

\* the text of block k of the catalog as it was laid out
BlockText(k) == Join(layout.blocks[k], <<NL>>)

\* every task of the payload, plain and fuzzy
AllTasks ==
    {translations_data.entries[i] : i \in DOMAIN translations_data.entries}
    \cup {translations_data.fuzzy_entries[i] : i \in DOMAIN translations_data.fuzzy_entries}

\* the physical lines of the catalog file
FileLines == Split(po_file, NL)

\* part occurs in lines as a run of consecutive lines
IsInfix(part, lines) ==
    \E i \in 0..(Len(lines) - Len(part)) : SubSeq(lines, i + 1, i + Len(part)) = part

\* a flags line that carries the fuzzy token
IsFuzzyLine(line) == StartsWith(Strip(line), K_HashComma) /\ Contains(line, K_Fuzzy)

\* C1: with no task, or only tasks whose translation slot is empty, the text
\* written back is the original text, and the tokens of the split, put
\* together again, are the text that was split.
C1_RoundTripIdentity ==
    /\ pc \in {"read", "mapped", "processed", "opened", "done"}
          => ConcatAll(ReSplit(content)) = content
    /\ (pc = "done" /\ \A t \in AllTasks : t.translation = <<>>)
          => po_file = Text(layout)

C1_Witness ==
    /\ pc = "done"
    /\ Len(layout.blocks) >= 2
    /\ AllTasks # {}
    /\ \A t \in AllTasks : t.translation = <<>>
    /\ po_file = Text(layout)

\* the lines of a block with the msgstr directive line and its continuation
\* lines replaced by the formatted translation, everything else kept
TargetedLines(lines, translation) ==
    LET at == {i \in 1..Len(lines) : StartsWith(Strip(lines[i]), K_MsgstrQuote)}
    IN IF at = {} THEN lines
       ELSE LET i == CHOOSE i \in at : \A j \in at : i <= j
                j == ContinuationEnd(lines, i + 1)
            IN SubSeq(lines, 1, i - 1) \o Rewritten(K_Msgstr, translation)
                 \o SubSeq(lines, j, Len(lines))

\* the payload is one singular task with a translation
SingleSingularTask ==
    /\ translations_data.fuzzy_entries = <<>>
    /\ Len(translations_data.entries) = 1
    /\ ~translations_data.entries[1].has_plural
    /\ translations_data.entries[1].translation # <<>>

\* C2: after the update with one singular task, the catalog is the original
\* text with only the msgstr line and continuation lines of the matching
\* block replaced; every other byte is the original's.
C2_TargetedMutation ==
    (pc = "done" /\ SingleSingularTask)
       => LET t == translations_data.entries[1]
          IN po_file =
               Text([layout EXCEPT !.blocks =
                       [k \in DOMAIN layout.blocks |->
                           IF ExtractMsgid(BlockText(k)) = t.msgid
                           THEN TargetedLines(layout.blocks[k], t.translation)
                           ELSE layout.blocks[k]]])

\* C4: the catalog file changes only by the write-back (the truncating open
\* and the write of the text computed before it), which comes after the
\* verbatim backup; a failure before the write-back leaves the file as it was.
C4_BackupBeforeWrite ==
    /\ [](pc \in {"opened", "done"} => backup_file = Text(layout))
    /\ [](pc \in {"backup_failed", "read_failed", "open_failed"}
             => po_file = Text(layout))
    /\ [][po_file' # po_file
             => /\ backup_file = Text(layout)
                /\ updated_content' = updated_content
                /\ \/ pc = "processed" /\ po_file' = <<>>
                   \/ pc = "opened" /\ po_file' = updated_content]_vars

C4_Witness ==
    /\ pc = "done"
    /\ po_file # Text(layout)
    /\ backup_file = Text(layout)

\* C5: for a plural task, every msgstr[N] line of the block of its msgid is
\* replaced, with its continuation lines, by the formatted value the task
\* supplies for N, and is kept when the task supplies none.
C5_PluralPerIndex ==
    pc = "done" =>
      \A t \in AllTasks : \A k \in DOMAIN layout.blocks :
        (t.has_plural /\ t.has_translations /\ ExtractMsgid(BlockText(k)) = t.msgid)
          => \A i \in DOMAIN layout.blocks[k] :
               LET line == layout.blocks[k][i]
                   digits == PluralIndexDigits(Strip(line))
                   index == ParseInt(digits, 0)
               IN digits # <<>> =>
                    IF index \in DOMAIN t.translations
                    THEN IsInfix(Rewritten(K_MsgstrBracket \o IntToStr(index) \o <<"]">>,
                                           t.translations[index]),
                                 FileLines)
                    ELSE IsInfix(<<line>>, FileLines)

\* C6: a block whose msgid is in the fuzzy map is updated as fuzzy, also when
\* the msgid is in the plain map: its fuzzy flag is gone from the file and
\* the counter has counted it.
C6_FuzzyMapPrecedence ==
    pc = "done" =>
      LET fuzzyBlocks ==
            {k \in DOMAIN layout.blocks :
                /\ ExtractMsgid(BlockText(k)) \in DOMAIN fuzzy_map
                /\ \E i \in DOMAIN layout.blocks[k] : IsFuzzyLine(layout.blocks[k][i])}
          keptBlocks ==
            {k \in DOMAIN layout.blocks :
                /\ ExtractMsgid(BlockText(k)) \notin DOMAIN fuzzy_map
                /\ \E i \in DOMAIN layout.blocks[k] : IsFuzzyLine(layout.blocks[k][i])}
      IN /\ fuzzy_cleared_count = Cardinality(fuzzyBlocks)
         /\ Cardinality({i \in DOMAIN FileLines : IsFuzzyLine(FileLines[i])})
              = Cardinality(keptBlocks)

-----------------------------------------------------------------------------
(* Properties of the checker and the exporter *)

\* the untranslated list before any cap: the entries, in catalog order, that
\* the exporter's loop appends to untranslated
UncappedUntranslated ==
    SelectSeq(exp_entries,
              LAMBDA e : ~e.is_fuzzy /\ e.is_untranslated
                           /\ ~IsExcluded(e.msgid, exp_exclusions))

\* C7: the exported untranslated list is the first N entries of the
\* un-capped list for every cap N, 0 included, and total_untranslated is the
\* length of the un-capped list.
C7_TotalBeforeTruncation ==
    exp_pc = "done" =>
      LET exported == IF exp_limit.given
                      THEN Take(UncappedUntranslated, exp_limit.n)
                      ELSE UncappedUntranslated
      IN /\ untranslated = exported
         /\ output_data.entries = [i \in DOMAIN exported |-> ExportedTask(exported[i])]
         /\ output_data.total_untranslated = Len(UncappedUntranslated)

\* the issues of the last check_entry that name plural index n, of one type
IssuesAt(n, type) ==
    Len(SelectSeq(chk_last.issues, LAMBDA x : x.idx = <<n>> /\ x.type = type))

\* C8: for a plural entry that is not obsolete and not excluded, check_entry
\* reports exactly one issue for each index whose string is empty (an empty
\* issue) or, outside en_EN, equal to the msgid (an untranslated issue), and
\* no issue for any other index.
C8_PluralCompleteness ==
    (/\ chk_i > 0
     /\ chk_last.entry.msgid_plural # <<>>
     /\ ~chk_last.entry.obsolete
     /\ ~chk_last.excluded)
      => LET e == chk_last.entry
         IN /\ \A n \in DictKeys(e.msgstr_plural) :
                  LET v == DictGet(e.msgstr_plural, n)
                  IN /\ IssuesAt(n, "empty_plural") = (IF v = <<>> THEN 1 ELSE 0)
                     /\ IssuesAt(n, "untranslated_plural")
                          = (IF v # <<>> /\ chk_lang # L_en_EN /\ v = e.msgid THEN 1 ELSE 0)
            /\ \A k \in DOMAIN chk_last.issues :
                  /\ chk_last.issues[k].type \in {"empty_plural", "untranslated_plural"}
                  /\ \E n \in DictKeys(e.msgstr_plural) : chk_last.issues[k].idx = <<n>>

C8_Witness ==
    /\ chk_i > 0
    /\ chk_lang = L_en_EN
    /\ ~chk_last.excluded
    /\ chk_last.entry.msgid_plural # <<>>
    /\ Cardinality(DictKeys(chk_last.entry.msgstr_plural)) = 3
    /\ \E n \in DictKeys(chk_last.entry.msgstr_plural) :
          DictGet(chk_last.entry.msgstr_plural, n) = chk_last.entry.msgid
    /\ Len(chk_last.issues) = 1

\* the translation fields of an entry are missing: no msgstr for a singular
\* entry, no msgstr[N] at all for a plural one
MissingTranslation(e) ==
    IF e.msgid_plural # <<>> THEN e.msgstr_plural = EmptyDict ELSE e.msgstr = <<>>

\* C9: an entry with a msgid, not obsolete and not excluded, whose translation
\* fields are missing has at least one issue in the checker and is
\* is_untranslated in the exporter.
C9_MissingFieldsIncomplete ==
    /\ (/\ chk_i > 0
        /\ chk_last.entry.msgid # <<>>
        /\ ~chk_last.entry.obsolete
        /\ ~chk_last.excluded
        /\ MissingTranslation(chk_last.entry))
         => chk_last.issues # <<>>
    /\ \A i \in DOMAIN exp_entries :
          (MissingTranslation(exp_entries[i])
             /\ ~IsExcluded(exp_entries[i].msgid, exp_exclusions))
            => exp_entries[i].is_untranslated

\* a msgid of at most 5 characters, all of them upper-case letters
ShortUpperCase(msgid) ==
    /\ msgid # <<>>
    /\ Len(msgid) <= 5
    /\ \A i \in DOMAIN msgid : IsUpper(msgid[i])

\* C10, as claimed: is_excluded answers true for a short upper-case msgid
\* with every exclusion list, the empty one included; the exporter exports
\* no such msgid.
C10_ShortUpperExcluded_Original ==
    /\ (chk_i > 0 /\ ShortUpperCase(chk_last.entry.msgid)) => chk_last.excluded
    /\ exp_pc = "done" =>
          \A i \in DOMAIN output_data.entries :
             ~ShortUpperCase(output_data.entries[i].msgid)

\* C10, amended: is_excluded answers true for a short upper-case msgid with
\* every exclusion list that is not empty; the exporter then exports no such
\* msgid.
C10_ShortUpperExcluded ==
    /\ (chk_i > 0 /\ chk_exclusions # <<>> /\ ShortUpperCase(chk_last.entry.msgid))
          => chk_last.excluded /\ chk_last.issues = <<>>
    /\ (exp_pc = "done" /\ exp_exclusions # <<>>) =>
          \A i \in DOMAIN output_data.entries :
             ~ShortUpperCase(output_data.entries[i].msgid)

C10_Witness ==
    /\ chk_i > 0
    /\ chk_exclusions # <<>>
    /\ ShortUpperCase(chk_last.entry.msgid)
    /\ Len(chk_last.entry.msgid) = 5
    /\ chk_last.entry.msgstr = <<>>
    /\ chk_last.excluded
    /\ chk_last.issues = <<>>

-----------------------------------------------------------------------------
(* Obsolete entries *)

\* the block has a line that starts with #~
HasObsoleteLine(block) ==
    LET lines == Split(Strip(block), NL)
    IN \E i \in DOMAIN lines : StartsWith(lines[i], K_HashTilde)

\* the msgids of the blocks of a text that have no #~ line
LiveMsgids(text) ==
    LET blocks == ReSplitBlocks(text)
    IN {PoParseBlock(blocks[k]).msgid :
          k \in {k \in DOMAIN blocks : ~HasObsoleteLine(blocks[k])}}

\* C11: a block with a #~ line yields no issue in the checker and no task,
\* plain or fuzzy, in the exporter: every issue and every exported task is
\* about a msgid of a block that has no #~ line.
C11_ObsoleteExcluded ==
    /\ \A k \in DOMAIN chk_last.issues :
          chk_last.issues[k].msgid \in LiveMsgids(chk_text)
    /\ exp_pc = "done" =>
          /\ \A k \in DOMAIN output_data.entries :
                output_data.entries[k].msgid \in LiveMsgids(exp_text)
          /\ \A k \in DOMAIN output_data.fuzzy_entries :
                output_data.fuzzy_entries[k].msgid \in LiveMsgids(exp_text)

-----------------------------------------------------------------------------
(* import_translations.py run several times on one catalog, same payload *)

\* the most blocks of a catalog that is updated again and again
MaxRepeatBlocks == 2
\* the most invocations of update()
MaxRuns == 2

Line_Flags(flags) == K_HashComma \o <<SP>> \o Join(flags, <<",", SP>>)
F_CFormat == <<"c", "-", "f", "o", "r", "m", "a", "t">>

\* msgid "a" / msgstr "" / "l" / "m": a msgstr with two continuation lines
Blk_Continued == <<Line_Msgid(<<"a">>), Line_Msgstr(<<>>), Quote(<<"l">>),
                   Quote(<<"m">>)>>
\* #, fuzzy, c-format / msgid "b" / msgstr "d"
Blk_FuzzyFormat == <<Line_Flags(<<K_Fuzzy, F_CFormat>>), Line_Msgid(<<"b">>),
                     Line_Msgstr(<<"d">>)>>
\* #: f:1 / (two spaces) msgid "a" / msgstr "": an indented directive line
Blk_Indented == <<K_HashColon \o <<SP, "f", ":", "1">>,
                  <<SP, SP>> \o Line_Msgid(<<"a">>), Line_Msgstr(<<>>)>>

\* #: f:1 / (two spaces) #, fuzzy / msgid "b" / msgstr "d": an indented
\* flags line
Blk_FuzzyIndented == <<K_HashColon \o <<SP, "f", ":", "1">>,
                       <<SP, SP>> \o Line_Fuzzy, Line_Msgid(<<"b">>),
                       Line_Msgstr(<<"d">>)>>

RepeatBlockPool ==
    {Blk_Singular, Blk_Continued, Blk_Fuzzy, Blk_FuzzyFormat, Blk_Indented,
     Blk_FuzzyIndented}

RepeatLayouts ==
    {[blocks |-> b, sep |-> <<NL, NL>>, trail |-> <<NL>>] :
        b \in UNION {[1..n -> RepeatBlockPool] : n \in 1..MaxRepeatBlocks}}

\* the payloads: nothing; a one-line translation for "a"; a two-line
\* translation for "a" with "b" in the fuzzy list; "b" in the fuzzy list
\* only; "b" in both lists
RepeatPayloads ==
    LET ax == SingularTask(<<"a">>, <<"x">>)
        apq == SingularTask(<<"a">>, <<"p", NL, "q">>)
        by == SingularTask(<<"b">>, <<"y">>)
    IN {[entries |-> <<>>, fuzzy_entries |-> <<>>],
        [entries |-> <<ax>>, fuzzy_entries |-> <<>>],
        [entries |-> <<apq>>, fuzzy_entries |-> <<by>>],
        [entries |-> <<>>, fuzzy_entries |-> <<by>>],
        [entries |-> <<by>>, fuzzy_entries |-> <<by>>]}

\* a catalog file, a payload, no update() yet
InitRepeat ==
    /\ layout \in RepeatLayouts
    /\ translations_data \in RepeatPayloads
    /\ po_file = Text(layout)
    /\ backup_file = NoFile
    /\ content = <<>>
    /\ translations_map = NoMap
    /\ fuzzy_map = NoMap
    /\ updated_content = <<>>
    /\ updated_count = 0
    /\ fuzzy_cleared_count = 0
    /\ pc = "start"
    /\ RepeatIdle
    /\ FormatIdle
    /\ CheckIdle
    /\ ExportIdle

\* One run of the script: a new PoUpdater on the catalog as it is now, and
\* its update() from the backup to the write. The backup file is named by
\* the second the clock shows; copy2 replaces a file of that name.
Update ==
    /\ pc \in {"start", "done"}
    /\ Len(invocations) < MaxRuns
    /\ backup_dir' = DictSet(backup_dir, now, po_file)
    /\ backup_file' = po_file
    /\ content' = po_file
    /\ translations_map' = TaskMap(translations_data.entries)
    /\ fuzzy_map' = TaskMap(translations_data.fuzzy_entries)
    /\ LET r == ProcessContent(content', translations_map', fuzzy_map')
       IN /\ updated_content' = r.text
          /\ updated_count' = r.updated
          /\ fuzzy_cleared_count' = r.cleared
    /\ po_file' = updated_content'
    /\ invocations' = Append(invocations,
                             [stamp |-> now, before |-> content', after |-> po_file',
                              updated_count |-> updated_count',
                              fuzzy_cleared_count |-> fuzzy_cleared_count'])
    /\ pc' = "done"
    /\ UNCHANGED <<layout, translations_data, now>>
    /\ UNCHANGED <<fmtVars, checkVars, exportVars>>

\* The clock moves on to the next second between two runs of the script.
\* Only update() reads the clock, so one step after a run is all that shows:
\* the next run falls in the same second as the last one, or in a later one.
Tick ==
    /\ pc = "done"
    /\ now = invocations[Len(invocations)].stamp
    /\ now' = now + 1
    /\ UNCHANGED <<backup_dir, invocations>>
    /\ UNCHANGED <<importVars, fmtVars, checkVars, exportVars>>

NextRepeat ==
    \/ Update
    \/ Tick

SpecRepeat == InitRepeat /\ [][NextRepeat]_vars

-----------------------------------------------------------------------------
(* Properties of repeated imports *)

\* the k-th block of a catalog text
BlockOf(text, k) == ReSplitBlocks(text)[k]

\* the task update() applies to a block, from the plain map before the fuzzy
\* map; only asked for a block that has one
TaskFor(block) ==
    LET m == ExtractMsgid(block)
    IN IF m \in DOMAIN TaskMap(translations_data.entries)
       THEN TaskMap(translations_data.entries)[m]
       ELSE TaskMap(translations_data.fuzzy_entries)[m]

HasTask(block) ==
    LET m == ExtractMsgid(block)
    IN /\ m # <<>>
       /\ \/ m \in DOMAIN TaskMap(translations_data.entries)
          \/ m \in DOMAIN TaskMap(translations_data.fuzzy_entries)

\* the lines of a block that follow its msgstr "..." line as continuation
\* lines; 0 for a block with no such line
MsgstrContinuations(block) ==
    LET lines == Split(Strip(block), NL)
        at == {i \in DOMAIN lines : StartsWith(Strip(lines[i]), K_MsgstrQuote)}
    IN IF at = {} THEN 0
       ELSE LET i == CHOOSE i \in at : \A j \in at : i <= j
            IN ContinuationEnd(lines, i + 1) - i - 1

\* C12: after update() has replaced the singular msgstr of a block, whatever
\* the number of continuation lines the old value had, the msgstr line is
\* followed by the continuation lines of the new value only, and parse_block
\* reads the supplied translation back from the updated block.
C12_ContinuationsReplaced ==
    \A i \in DOMAIN invocations :
      \A k \in DOMAIN ReSplitBlocks(invocations[i].before) :
        LET b == BlockOf(invocations[i].before, k)
            a == BlockOf(invocations[i].after, k)
        IN (/\ HasTask(b)
            /\ ~TaskFor(b).has_plural
            /\ ParseBlock(b).msgid = TaskFor(b).msgid
            /\ \E l \in DOMAIN Split(Strip(b), NL) :
                  StartsWith(Strip(Split(Strip(b), NL)[l]), K_MsgstrQuote))
           => /\ ParseBlock(a).msgstr = TaskFor(b).translation
              /\ MsgstrContinuations(a) = Len(FormatString(TaskFor(b).translation)) - 1

\* the flags lines of a block, each as its list of flags
FlagsOf(block) ==
    LET lines == SelectSeq(Split(Strip(block), NL),
                           LAMBDA l : StartsWith(Strip(l), K_HashComma))
    IN [i \in DOMAIN lines |-> FlagList(From(Strip(lines[i]), 2))]

\* a flags line of the block has the fuzzy flag
CarriesFuzzy(block) ==
    LET flags == FlagsOf(block)
    IN \E i \in DOMAIN flags : InSeq(K_Fuzzy, flags[i])

\* the block is updated from the fuzzy map
UpdatedFromFuzzy(block) ==
    /\ HasTask(block)
    /\ ExtractMsgid(block) \notin DOMAIN TaskMap(translations_data.entries)

\* C13: a block updated from the fuzzy map that has a flags line with fuzzy
\* keeps its other flags in their order, has no flags line when fuzzy was
\* the only flag, and counts 1 in fuzzy_cleared_count; every other block
\* keeps its flags lines and counts nothing.
C13_FuzzyFlagClearing ==
    \A i \in DOMAIN invocations :
      LET before == ReSplitBlocks(invocations[i].before)
          after == ReSplitBlocks(invocations[i].after)
          cleared == {k \in DOMAIN before :
                        UpdatedFromFuzzy(before[k]) /\ CarriesFuzzy(before[k])}
          without(flags) == SelectSeq(flags, LAMBDA f : f # K_Fuzzy)
      IN /\ Len(after) = Len(before)
         /\ \A k \in DOMAIN before :
              LET old == FlagsOf(before[k])
              IN IF k \in cleared
                 THEN FlagsOf(after[k]) =
                        SelectSeq([j \in DOMAIN old |-> without(old[j])],
                                  LAMBDA flags : flags # <<>>)
                 ELSE FlagsOf(after[k]) = old
         /\ invocations[i].fuzzy_cleared_count = Cardinality(cleared)

\* C14: a second update() with the same payload leaves the catalog text as
\* the first update() left it.
C14_ImportIdempotent ==
    \A i \in DOMAIN invocations :
        i > 1 => invocations[i].after = invocations[1].after

\* C15: for every update() that has run there is a backup file whose content
\* is the catalog text as it was just before that update().
C15_BackupsNeverLost ==
    \A i \in DOMAIN invocations :
        \E stamp \in DictKeys(backup_dir) :
            DictGet(backup_dir, stamp) = invocations[i].before

\* C16: for every block of the catalog, _extract_msgid and parse_block give
\* the same msgid.
C16_UpdaterParserAgree ==
    \A k \in DOMAIN layout.blocks :
        ExtractMsgid(BlockText(k)) = ParseBlock(BlockText(k)).msgid

====
